---- MODULE Spec2Model ----
(***************************************************************************)
(* Model of the 101-Demo repository.                                       *)
(*                                                                         *)
(*  - The Salesforce proxy: the Express server of salesforce_app           *)
(*    (server/config.ts, server/index.ts, server/routes/auth.ts,           *)
(*    server/routes/salesforce.ts, server/salesforce/client.ts), with its  *)
(*    process-wide token slot.  Specification: Spec.                       *)
(*  - The response cache of the finance backend (cache-aside proxy with a  *)
(*    TTL and a capacity).  Specification: CacheSpec.                      *)
(*  - The finance dashboard (frontend/app/page.tsx and its components):    *)
(*    the page, the stock chart and the price display with their           *)
(*    requests.  Specifications: UiSpec, ChartSpec.                        *)
(*  - The Salesforce Query Tester of salesforce_app                        *)
(*    (src/components/salesforce-query.tsx).  Specification: TesterSpec.   *)
(*                                                                         *)
(* Node runs every handler to its next await without interruption, so one  *)
(* action is one such run: the arrival of a request up to its first        *)
(* outgoing call, or the continuation after a call has settled.            *)
(***************************************************************************)
EXTENDS Integers, Sequences, FiniteSets, TLC

VARIABLES
    rawEnv,          \* config.ts: the three required variables as read at startup
    cachedToken,     \* client.ts: let cachedToken
    tokenExpiresAt,  \* client.ts: let tokenExpiresAt
    now,             \* Date.now() of the server process, in ms
    ticks,           \* number of clock advances so far
    req,             \* the HTTP requests of the Express server
    issued,          \* number of tokens the Salesforce token endpoint has issued
    refreshes,       \* history: the completed refresh-token grants, in completion order
    running,         \* the Express process is alive
    cnow,            \* clock of the finance backend, in seconds
    cticks,          \* number of clock advances of the finance backend
    cache,           \* the response cache: its entries, oldest store first
    creq,            \* the requests of the finance backend
    upstreamCalls,   \* number of calls made to the market-data provider
    page,            \* page.tsx: the state of Home
    calls,           \* the calls of fetchTickerData
    chart,           \* stock-chart.tsx: the state of the mounted StockChart
    chartCalls,      \* the calls of fetchChartData
    clicks,          \* number of clicks on the chart's controls so far
    store,           \* the ticker of currentStock in the stock store
    price,           \* prominent-price-display.tsx: the state of the component
    priceCalls,      \* the tickers of the calls of fetchPriceSummary in flight
    tester,          \* salesforce-query.tsx: the state of SalesforceQuery
    testerCall       \* the call of runQuery in flight

sfVars == <<rawEnv, cachedToken, tokenExpiresAt, now, ticks, req, issued, refreshes, running>>
cacheVars == <<cnow, cticks, cache, creq, upstreamCalls>>
uiVars == <<page, calls, chart, chartCalls, clicks, store, price, priceCalls>>
testerVars == <<tester, testerCall>>
vars == <<rawEnv, cachedToken, tokenExpiresAt, now, ticks, req, issued, refreshes, running,
          cnow, cticks, cache, creq, upstreamCalls,
          page, calls, chart, chartCalls, clicks, store, price, priceCalls,
          tester, testerCall>>

----------------------------------------------------------------------------
(* Bounds *)

MaxReqs == 2
MaxTicks == 2
MaxCacheReqs == 2
MaxCacheTicks == 2
MaxCalls == 2
MaxChartActions == 2
\* The capacity is configured through CACHE_MAX_SIZE (default 1024); the model
\* runs the cache with a capacity small enough to be filled.
CACHE_MAX_SIZE == 1

Reqs == 1..MaxReqs

----------------------------------------------------------------------------
(* Salesforce proxy: configuration (server/config.ts) *)

REQUIRED_SALESFORCE_KEYS ==
    {"SALESFORCE_CLIENT_ID", "SALESFORCE_CLIENT_SECRET", "SALESFORCE_REFRESH_TOKEN"}

\* A process.env entry: undefined, or a string of some length.
Undefined == [defined |-> FALSE, len |-> 0]
EnvValues == {Undefined, [defined |-> TRUE, len |-> 0], [defined |-> TRUE, len |-> 1]}

\* Variant: only undefined counts as missing.
FalsyUndefinedOnly(v) == ~v.defined

\* JavaScript !v for an environment entry: undefined and "" are falsy.
Falsy(v) == ~v.defined \/ v.len = 0

missingSalesforceEnv == {key \in REQUIRED_SALESFORCE_KEYS : Falsy(rawEnv[key])}

isSalesforceConfigured == Cardinality(missingSalesforceEnv) = 0

----------------------------------------------------------------------------
(* Salesforce proxy: token manager (server/salesforce/client.ts) *)

RefreshMarginMs == 30000
TokenLifetimeMs == 14 * 60 * 1000

\* The clock advances by these amounts: one ms, and the distance from a
\* refresh to the last ms before its token enters the refresh margin.
TickDeltas == {1, TokenLifetimeMs - RefreshMarginMs - 1}

\* cachedToken: TokenResponse | null.  Access tokens are numbered from 1.
NULL == [access_token |-> 0, instance_url |-> "null"]
TokenData(n) == [access_token |-> n, instance_url |-> "https://instance"]

\* Variant: the token is still returned at the edge of the refresh margin.
CacheUsableAtMargin(tok, expires, t) == tok # NULL /\ expires >= t + RefreshMarginMs

\* The test of refreshAccessToken: the cached token is returned as it is.
CacheUsable(tok, expires, t) == tok # NULL /\ expires > t + RefreshMarginMs

----------------------------------------------------------------------------
(* Salesforce proxy: requests and responses *)

\* What a response body can carry.
Item(kind, id) == [kind |-> kind, id |-> id]
SecretKinds == {"client_secret", "refresh_token", "access_token"}

NoResponse == [status |-> 0, message |-> "", body |-> {}]
Response(status, message, body) == [status |-> status, message |-> message, body |-> body]

MsgMissingAccounts ==
    "Salesforce credentials are missing. Update your .env file to enable this endpoint."
MsgMissingQuery ==
    "Salesforce credentials are missing. Update your .env file to enable queries."
MsgInvalidQuery == "Invalid query"
MsgInternal == "Internal Server Error"

\* Variant: the middleware passes the error's own text on.
ErrorMiddlewareRaw == Response(500, "raw", {Item("provider_error", 0)})

\* index.ts: the error middleware, reached through next(error).
ErrorMiddleware == Response(500, MsgInternal, {})

\* The JSON bodies POST /query is sent with: req.body.query.
Bodies == {[type |-> "undefined", len |-> 0], [type |-> "number", len |-> 0],
           [type |-> "string", len |-> 0], [type |-> "string", len |-> 1]}
NoBody == [type |-> "undefined", len |-> 0]

\* Variant: any string passes, the empty one included.
QuerySchemaAnyString(b) == b.type = "string"

\* querySchema: z.object({ query: z.string().min(1) })
QuerySchemaOk(b) == b.type = "string" /\ b.len >= 1

NewReq == [pc |-> "new", endpoint |-> "none", body |-> NoBody, now |-> 0,
           sawToken |-> NULL, sawExpiry |-> 0, ranSoql |-> FALSE,
           tokenCalls |-> 0, soqlCalls |-> 0, usedToken |-> 0,
           refreshFailed |-> FALSE, soqlFailed |-> FALSE, response |-> NoResponse]

----------------------------------------------------------------------------
(* Salesforce proxy: handlers *)

\* Variant: the callback awaits outside a try block.
CaughtRoutesOnly(endpoint) == endpoint \in {"accounts", "query"}

\* Every await of the route handlers is inside a try block whose catch
\* answers the request (salesforce.ts: next(error); auth.ts: the 500 page),
\* so no rejection escapes a handler and ends the process.
Caught(endpoint) == endpoint \in {"accounts", "query", "callback"}

\* The 503 answered when isSalesforceConfigured is false.
MissingResponse(endpoint) ==
    Response(503, IF endpoint = "accounts" THEN MsgMissingAccounts ELSE MsgMissingQuery, {})

\* Variant: every other error is answered like missing credentials.
QueryCatchAs503(isZodError) ==
    IF isZodError THEN Response(400, MsgInvalidQuery, {Item("issues", 0)})
    ELSE MissingResponse("query")

\* The catch block of POST /query.
QueryCatch(isZodError) ==
    IF isZodError THEN Response(400, MsgInvalidQuery, {Item("issues", 0)})
    ELSE ErrorMiddleware

\* refreshAccessToken up to its await, then runSoql's POST when the cached
\* token is returned: q is the request, t the value of Date.now().
RunSoqlStart(q, endpoint, t) ==
    IF CacheUsable(cachedToken, tokenExpiresAt, t)
    THEN [q EXCEPT !.pc = "awaitQuery", !.endpoint = endpoint, !.now = t,
                   !.sawToken = cachedToken, !.sawExpiry = tokenExpiresAt,
                   !.ranSoql = TRUE,
                   !.usedToken = cachedToken.access_token, !.soqlCalls = @ + 1]
    ELSE [q EXCEPT !.pc = "awaitToken", !.endpoint = endpoint, !.now = t,
                   !.sawToken = cachedToken, !.sawExpiry = tokenExpiresAt,
                   !.ranSoql = TRUE,
                   !.tokenCalls = @ + 1]

\* Requests arrive in the order of their numbers.
CanArrive(r) ==
    /\ running
    /\ req[r].pc = "new"
    /\ r > 1 => req[r - 1].pc # "new"

\* GET /api/salesforce/accounts
ReceiveAccounts(r) ==
    /\ CanArrive(r)
    /\ req' = [req EXCEPT ![r] =
            IF ~isSalesforceConfigured
            THEN [@ EXCEPT !.pc = "done", !.endpoint = "accounts",
                           !.response = MissingResponse("accounts")]
            ELSE RunSoqlStart(@, "accounts", now)]
    /\ UNCHANGED <<rawEnv, cachedToken, tokenExpiresAt, now, ticks, issued, refreshes, running>>
    /\ UNCHANGED <<cacheVars, uiVars, testerVars>>

\* POST /api/salesforce/query
ReceiveQuery(r) ==
    /\ CanArrive(r)
    /\ \E b \in Bodies :
         req' = [req EXCEPT ![r] =
            IF ~isSalesforceConfigured
            THEN [@ EXCEPT !.pc = "done", !.endpoint = "query", !.body = b,
                           !.response = MissingResponse("query")]
            ELSE IF ~QuerySchemaOk(b)
            THEN [@ EXCEPT !.pc = "done", !.endpoint = "query", !.body = b,
                           !.response = QueryCatch(TRUE)]
            ELSE RunSoqlStart([@ EXCEPT !.body = b], "query", now)]
    /\ UNCHANGED <<rawEnv, cachedToken, tokenExpiresAt, now, ticks, issued, refreshes, running>>
    /\ UNCHANGED <<cacheVars, uiVars, testerVars>>

\* Variant: a token already in the slot is kept.
StoreTokenKeepFirst(old, data) == IF old # NULL THEN old ELSE data

\* Variant: the status route reports all three variables once any is missing.
StatusMissingAll ==
    IF isSalesforceConfigured THEN {} ELSE REQUIRED_SALESFORCE_KEYS

\* GET /status: the missing list, filtered from process.env at request time.
StatusMissing ==
    IF isSalesforceConfigured THEN {}
    ELSE {key \in REQUIRED_SALESFORCE_KEYS : Falsy(rawEnv[key])}

\* res.json({ configured, missing }): the body names the two fields and the
\* members of missing.
StatusResponse ==
    Response(200, "",
             {Item("configured", IF isSalesforceConfigured THEN 1 ELSE 0), Item("missing", 0)}
                 \cup {Item(key, 0) : key \in StatusMissing})

\* GET /api/salesforce/status
ReceiveStatus(r) ==
    /\ CanArrive(r)
    /\ req' = [req EXCEPT ![r] =
            [@ EXCEPT !.pc = "done", !.endpoint = "status", !.response = StatusResponse]]
    /\ UNCHANGED <<rawEnv, cachedToken, tokenExpiresAt, now, ticks, issued, refreshes, running>>
    /\ UNCHANGED <<cacheVars, uiVars, testerVars>>

\* The slot after a refresh-token grant returned data.
StoreToken(old, data) == data
\* Variant: the expiry is only moved forward.
StoreExpiryMax(old, started) ==
    IF old > started + TokenLifetimeMs THEN old ELSE started + TokenLifetimeMs

StoreExpiry(old, started) == started + TokenLifetimeMs

\* Variant: the grant is tried a second time before the request fails.
AfterRefreshFailureRetry(q) ==
    IF q.tokenCalls < 2
    THEN [q EXCEPT !.tokenCalls = @ + 1]
    ELSE [q EXCEPT !.pc = "done", !.refreshFailed = TRUE, !.response = ErrorMiddleware]

\* The request after axios.post to the token endpoint rejected: the
\* rejection leaves refreshAccessToken and runSoql and reaches the catch of
\* the route.
AfterRefreshFailure(q) ==
    [q EXCEPT !.pc = "done", !.refreshFailed = TRUE, !.response = QueryCatch(FALSE)]

\* Variant: a failed refresh clears the slot.
TokenAfterFailureCleared(tok) == NULL

\* The slot after axios.post rejected: the assignments after the await are
\* not reached.
TokenAfterFailure(tok) == tok

\* refreshAccessToken after its await: the token endpoint answered.
TokenSettles(r) ==
    /\ running
    /\ req[r].pc = "awaitToken"
    /\ \/ /\ cachedToken' = StoreToken(cachedToken, TokenData(issued + 1))
          /\ tokenExpiresAt' = StoreExpiry(tokenExpiresAt, req[r].now)
          /\ issued' = issued + 1
          /\ refreshes' = Append(refreshes, [token |-> issued + 1, started |-> req[r].now])
          /\ req' = [req EXCEPT ![r] =
                 [@ EXCEPT !.pc = "awaitQuery", !.usedToken = issued + 1,
                           !.soqlCalls = @ + 1]]
          /\ UNCHANGED running
       \/ /\ req' = [req EXCEPT ![r] = AfterRefreshFailure(@)]
          /\ running' = Caught(req[r].endpoint)
          /\ cachedToken' = TokenAfterFailure(cachedToken)
          /\ UNCHANGED <<tokenExpiresAt, issued, refreshes>>
    /\ UNCHANGED <<rawEnv, now, ticks>>
    /\ UNCHANGED <<cacheVars, uiVars, testerVars>>

\* runSoql after its await: Salesforce answered the SOQL POST.
QuerySettles(r) ==
    /\ running
    /\ req[r].pc = "awaitQuery"
    /\ \/ /\ req' = [req EXCEPT ![r] =
                 [@ EXCEPT !.pc = "done",
                           !.response = Response(200, "", {Item("records", 0)})]]
          /\ UNCHANGED running
       \/ /\ req' = [req EXCEPT ![r] =
                 [@ EXCEPT !.pc = "done", !.soqlFailed = TRUE,
                           !.response = QueryCatch(FALSE)]]
          /\ running' = Caught(req[r].endpoint)
    /\ UNCHANGED <<rawEnv, cachedToken, tokenExpiresAt, now, ticks, issued, refreshes>>
    /\ UNCHANGED <<cacheVars, uiVars, testerVars>>

\* GET /auth/salesforce/callback up to its await: hasError is req.query.error,
\* codeIsString is typeof req.query.code === "string" with a non-empty code.
ReceiveCallback(r) ==
    /\ CanArrive(r)
    /\ \E hasError \in BOOLEAN, codeIsString \in BOOLEAN :
         req' = [req EXCEPT ![r] =
            IF hasError
            THEN [@ EXCEPT !.pc = "done", !.endpoint = "callback",
                           !.response = Response(400, "OAuth Error", {Item("query_error", 0)})]
            ELSE IF ~codeIsString
            THEN [@ EXCEPT !.pc = "done", !.endpoint = "callback",
                           !.response = Response(400, "Missing Code", {})]
            ELSE [@ EXCEPT !.pc = "awaitExchange", !.endpoint = "callback",
                           !.tokenCalls = @ + 1]]
    /\ UNCHANGED <<rawEnv, cachedToken, tokenExpiresAt, now, ticks, issued, refreshes, running>>
    /\ UNCHANGED <<cacheVars, uiVars, testerVars>>

\* The page the callback answers with once the code exchange has settled.
\* outcome: "network" (fetch rejected), "not_ok" (!tokenResponse.ok),
\* "no_refresh" (no refresh_token in the answer), "ok".
CallbackPage(outcome, r) ==
    CASE outcome = "ok" ->
            Response(200, "OAuth Setup Complete",
                     {Item("refresh_token", r), Item("instance_url", 0)})
      [] outcome = "no_refresh" ->
            Response(500, "Token Exchange Failed", {Item("static_error", 0)})
      [] outcome = "not_ok" ->
            Response(500, "Token Exchange Failed", {Item("provider_error", 0)})
      [] OTHER ->
            Response(500, "Token Exchange Failed", {Item("fetch_error", 0)})

ExchangeOutcomes == {"network", "not_ok", "no_refresh", "ok"}

\* GET /auth/salesforce/callback after its await.
ExchangeSettles(r) ==
    /\ running
    /\ req[r].pc = "awaitExchange"
    /\ \E outcome \in ExchangeOutcomes :
         req' = [req EXCEPT ![r] =
                    [@ EXCEPT !.pc = "done", !.response = CallbackPage(outcome, r)]]
    /\ running' = Caught(req[r].endpoint)
    /\ UNCHANGED <<rawEnv, cachedToken, tokenExpiresAt, now, ticks, issued, refreshes>>
    /\ UNCHANGED <<cacheVars, uiVars, testerVars>>

\* Time passes.
Tick ==
    /\ ticks < MaxTicks
    /\ \E d \in TickDeltas : now' = now + d
    /\ ticks' = ticks + 1
    /\ UNCHANGED <<rawEnv, cachedToken, tokenExpiresAt, req, issued, refreshes, running>>
    /\ UNCHANGED <<cacheVars, uiVars, testerVars>>

----------------------------------------------------------------------------
(* Response cache of the finance backend (cache-aside proxy) *)

CACHE_TTL_SECONDS == 21600

\* Cache keys (endpoint + ticker + parameters) and the payloads the provider
\* answers with.
Keys == {"overview/AAPL", "overview/MSFT"}
Payloads == {1, 2}
CacheReqs == 1..MaxCacheReqs
CacheTickDeltas == {1, CACHE_TTL_SECONDS - 1}
UpstreamErrors == {502, 503}

\* CacheEntry { key, value, expiresAt }; by is the request that stored it.
Entry(k, v, e, r) == [key |-> k, present |-> TRUE, value |-> v, expiresAt |-> e, by |-> r]
NoEntry(k) == [key |-> k, present |-> FALSE, value |-> 0, expiresAt |-> 0, by |-> 0]

Lookup(c, k) ==
    IF \E i \in 1..Len(c) : c[i].key = k
    THEN c[CHOOSE i \in 1..Len(c) : c[i].key = k]
    ELSE NoEntry(k)

\* Variant: the entry is still served at the second it expires.
IsHitAtExpiry(e, t) == e.present /\ t <= e.expiresAt

\* A hit is returned if and only if now < expiresAt.
IsHit(e, t) == e.present /\ t < e.expiresAt

KeyIsNot(k, e) == e.key # k
Remove(c, k) == SelectSeq(c, LAMBDA e : KeyIsNot(k, e))

\* Variant: nothing is evicted.
EvictNothing(c) == c

\* The capacity policy: the oldest entries are evicted while the store holds
\* more than CACHE_MAX_SIZE entries.
Evict(c) == IF Len(c) > CACHE_MAX_SIZE THEN Tail(c) ELSE c

\* Variant: an entry already stored for the key is kept.
StoreKeepExisting(c, e) ==
    IF \E i \in 1..Len(c) : c[i].key = e.key THEN c ELSE Evict(Append(c, e))

\* A cache write: one assignment to the key, then the capacity policy.
Store(c, e) == Evict(Append(Remove(c, e.key), e))

\* Variant: the entry is stored as already expired.
FreshExpiryNoTtl(t) == t

\* The expiry an entry is stored with.
FreshExpiry(t) == t + CACHE_TTL_SECONDS

NewCacheReq == [pc |-> "new", key |-> "", issuedAt |-> 0, hit |-> FALSE,
                saw |-> NoEntry(""), servedFrom |-> 0, calls |-> 0,
                status |-> 0, output |-> 0, doneAt |-> 0, stored |-> NoEntry("")]

CacheCanArrive(r) ==
    /\ creq[r].pc = "new"
    /\ r > 1 => creq[r - 1].pc # "new"

\* The request after its lookup found e at time t.
AfterLookup(q, k, e, t) ==
    IF IsHit(e, t)
    THEN [q EXCEPT !.pc = "done", !.key = k, !.issuedAt = t, !.saw = e, !.hit = TRUE,
                   !.servedFrom = e.by, !.status = 200, !.output = e.value,
                   !.doneAt = t]
    ELSE [q EXCEPT !.pc = "upstream", !.key = k, !.issuedAt = t, !.saw = e,
                   !.calls = @ + 1]

\* A request for key k arrives: it is served from the cache, or the entry (if
\* any) is evicted and the upstream provider is called.
CacheRequest(r) ==
    /\ CacheCanArrive(r)
    /\ \E k \in Keys :
         LET e == Lookup(cache, k) IN
         /\ creq' = [creq EXCEPT ![r] = AfterLookup(@, k, e, cnow)]
         /\ IF IsHit(e, cnow)
            THEN UNCHANGED <<cache, upstreamCalls>>
            ELSE /\ cache' = Remove(cache, k)
                 /\ upstreamCalls' = upstreamCalls + 1
    /\ UNCHANGED <<cnow, cticks>>
    /\ UNCHANGED <<sfVars, uiVars, testerVars>>

\* Variant: the failure is stored like a result.
AfterUpstreamFailureCached(c, k, r) ==
    Evict(Append(Remove(c, k), Entry(k, 0, cnow + CACHE_TTL_SECONDS, r)))

\* The cache after the upstream call of a request for k failed.
AfterUpstreamFailure(c, k, r) == c

\* The upstream provider answered: the normalized result is stored with a
\* fresh expiry and returned.
UpstreamReturns(r) ==
    /\ creq[r].pc = "upstream"
    /\ \E v \in Payloads :
         LET e == Entry(creq[r].key, v, FreshExpiry(cnow), r) IN
         /\ cache' = Store(cache, e)
         /\ creq' = [creq EXCEPT ![r] =
                [@ EXCEPT !.pc = "done", !.status = 200, !.output = v,
                          !.doneAt = cnow, !.stored = e]]
    /\ UNCHANGED <<cnow, cticks, upstreamCalls>>
    /\ UNCHANGED <<sfVars, uiVars, testerVars>>

\* The upstream call failed: nothing is cached, the error goes to the HTTP layer.
UpstreamFails(r) ==
    /\ creq[r].pc = "upstream"
    /\ \E st \in UpstreamErrors :
         creq' = [creq EXCEPT ![r] =
                [@ EXCEPT !.pc = "done", !.status = st, !.doneAt = cnow]]
    /\ cache' = AfterUpstreamFailure(cache, creq[r].key, r)
    /\ UNCHANGED <<cnow, cticks, upstreamCalls>>
    /\ UNCHANGED <<sfVars, uiVars, testerVars>>

CacheTick ==
    /\ cticks < MaxCacheTicks
    /\ \E d \in CacheTickDeltas : cnow' = cnow + d
    /\ cticks' = cticks + 1
    /\ UNCHANGED <<cache, creq, upstreamCalls>>
    /\ UNCHANGED <<sfVars, uiVars, testerVars>>

CacheInit ==
    /\ cnow = 0
    /\ cticks = 0
    /\ cache = <<>>
    /\ creq = [r \in CacheReqs |-> NewCacheReq]
    /\ upstreamCalls = 0

----------------------------------------------------------------------------
(* Finance dashboard: the page (app/page.tsx) and its components *)
(*                                                                         *)
(* A fetch and the reading of the body of its response are one step: the   *)
(* handler changes no state between the two awaits.                        *)

Tickers == {"AAPL", "MSFT"}
Periods == {"7d", "3mo", "6mo", "1y"}
Calls == 1..MaxCalls
ChartCalls == 1..(1 + MaxChartActions)

\* Statuses the backend answers with, and response.ok.
OverviewStatuses == {200, 404, 500}
SideStatuses == {200, 503}
HistoryStatuses == {200, 500}
Ok(status) == status >= 200 /\ status <= 299

\* The shapes of a non-2xx body: detail is an object with a message, a
\* string, or absent.
ErrorShapes == {"message", "string", "absent"}

\* An error text; status is the status of the response it was made from.
NoError == [kind |-> "none", status |-> 0]
Message(kind, status) == [kind |-> kind, status |-> status]

\* errorData.detail?.message || errorData.detail || `Error: ${status}`
ErrorMessage(shape, status) ==
    CASE shape = "message" -> Message("detail.message", status)
      [] shape = "string" -> Message("detail", status)
      [] OTHER -> Message("Error: status", status)

\* err.message of what fetch() or response.json() rejects with: a text of
\* the browser.
Rejection == Message("rejected", 0)

NoData == [present |-> FALSE, ticker |-> "", results |-> FALSE]
OverviewData(t, results) == [present |-> TRUE, ticker |-> t, results |-> results]
NoSide == [present |-> FALSE, ticker |-> ""]
SideData(t) == [present |-> TRUE, ticker |-> t]

\* useState of Home.
InitialPage == [loading |-> FALSE, snapshotLoading |-> FALSE, financialsLoading |-> FALSE,
                error |-> NoError, data |-> NoData, snapshotData |-> NoSide,
                financialsData |-> NoSide, currentTicker |-> ""]

\* The requests of fetchTickerData.
Requests == {"overview", "snapshot", "financials"}

\* A call of fetchTickerData: its argument, the statuses its three requests
\* were answered with (0: not answered), and the request whose fetch or
\* whose reading of the body rejected ("": none).
NewCall == [pc |-> "idle", ticker |-> "", ov |-> 0, snap |-> 0, fin |-> 0, rejected |-> ""]
Returned(q) == [q EXCEPT !.pc = "done", !.ticker = ""]
Failed(q) == [q EXCEPT !.pc = "failed", !.ticker = ""]

\* What is kept of an earlier call when a call is started: of a call that
\* has ended, only how it ended.
Ended(q) == IF q.pc \in {"done", "failed"} THEN [NewCall EXCEPT !.pc = q.pc] ELSE q

\* useState of StockChart; an unmounted chart has no state.  lastStatus is
\* the status of the last history response it handled (0: none, or the
\* fetch rejected).
ChartUnmounted == [mounted |-> FALSE, ticker |-> "", selectedPeriod |-> "7d",
                   loading |-> FALSE, error |-> NoError, chartData |-> "",
                   lastStatus |-> 0]

\* A call of fetchChartData with its arguments; they are gone once it
\* returned.
NewChartCall == [pc |-> "idle", ticker |-> "", period |-> "7d"]
ChartReturned == NewChartCall

\* useState of ProminentPriceDisplay; lastStatus is the status of the last
\* price-summary response it handled (0: none, or the fetch rejected).
PriceUnmounted == [mounted |-> FALSE, summary |-> "", loading |-> FALSE, lastStatus |-> 0]

\* page.tsx renders TickerOverview and StockChart under data && !loading.
Displayed(p) == p.data.present /\ ~p.loading

\* The destructive alert of the page: {error && <Alert>}.
ErrorAlertShown == page.error.kind # "none"

\* TickerOverview: if (!data.results) the card "No data available".
NoDataAvailableShown == Displayed(page) /\ ~page.data.results

\* StockChart: {error && !loading && <Alert> ... Retry}.
ChartErrorShown == chart.mounted /\ chart.error.kind # "none" /\ ~chart.loading

\* The first chart call that is not in flight.
FreeChartCall == CHOOSE k \in ChartCalls :
                    /\ chartCalls[k].pc = "idle"
                    /\ \A j \in ChartCalls : j < k => chartCalls[j].pc # "idle"

\* fetchChartData up to its await, on the chart state ch.
FetchChartData(ch) == [ch EXCEPT !.loading = TRUE, !.error = NoError]

\* Variant: the request is made with the period the chart held before the
\* click.
IssueChartCallStale(cc, t, p) ==
    [cc EXCEPT ![FreeChartCall] = [@ EXCEPT !.pc = "fetching", !.ticker = t,
                                            !.period = chart.selectedPeriod]]

IssueChartCall(cc, t, p) ==
    [cc EXCEPT ![FreeChartCall] = [@ EXCEPT !.pc = "fetching", !.ticker = t, !.period = p]]

\* StockChart mounts: period "7d", then its effect on [ticker, selectedPeriod].
MountChart(t) ==
    /\ chart' = IF t = ""
                THEN [ChartUnmounted EXCEPT !.mounted = TRUE]
                ELSE FetchChartData([ChartUnmounted EXCEPT !.mounted = TRUE, !.ticker = t])
    /\ chartCalls' = IF t = "" THEN chartCalls ELSE IssueChartCall(chartCalls, t, "7d")

\* StockChart stays mounted and is rendered with the ticker t.
UpdateChart(t) ==
    IF t = chart.ticker
    THEN UNCHANGED <<chart, chartCalls>>
    ELSE IF t = ""
    THEN /\ chart' = [chart EXCEPT !.ticker = t, !.chartData = ""]
         /\ UNCHANGED chartCalls
    ELSE /\ chart' = FetchChartData([chart EXCEPT !.ticker = t])
         /\ chartCalls' = IssueChartCall(chartCalls, t, chart.selectedPeriod)

\* The tickers ProminentPriceDisplay fetches a price summary for when
\* TickerOverview is rendered with results of ticker t: its own effect runs
\* with the stock the store holds, then the effect of TickerOverview puts t
\* into the store and the effect runs again if the ticker changed.
PriceFetches(t, wasMounted) ==
    IF wasMounted
    THEN (IF t # store THEN {t} ELSE {})
    ELSE {store, t} \ {""}

\* TickerOverview is rendered with the overview d.
RenderOverview(d) ==
    IF ~d.results
    THEN /\ price' = PriceUnmounted
         /\ priceCalls' = {}
         /\ UNCHANGED store
    ELSE LET fetches == PriceFetches(d.ticker, price.mounted)
         IN  /\ store' = d.ticker
             /\ priceCalls' = priceCalls \cup fetches
             /\ price' = [mounted |-> TRUE,
                          summary |-> price.summary,
                          loading |-> IF fetches = {} THEN price.loading ELSE TRUE,
                          lastStatus |-> price.lastStatus]

\* StockChart is unmounted: a state update of a call it has in flight no
\* longer changes anything, so the call is over for the dashboard.
Abandoned(cc) ==
    [k \in ChartCalls |-> IF cc[k].pc = "fetching" THEN ChartReturned ELSE cc[k]]

\* React renders the page after a handler changed its state from pOld to pNew.
Rerender(pOld, pNew) ==
    IF ~Displayed(pNew)
    THEN /\ chart' = ChartUnmounted
         /\ price' = PriceUnmounted
         /\ chartCalls' = Abandoned(chartCalls)
         /\ priceCalls' = {}
         /\ UNCHANGED store
    ELSE IF ~Displayed(pOld)
    THEN /\ MountChart(pNew.currentTicker)
         /\ RenderOverview(pNew.data)
    ELSE /\ UpdateChart(pNew.currentTicker)
         /\ IF pNew.data = pOld.data
            THEN UNCHANGED <<price, store, priceCalls>>
            ELSE RenderOverview(pNew.data)

\* fetchTickerData up to its await: the state it sets.
FetchStart(p, t) ==
    [p EXCEPT !.loading = TRUE, !.snapshotLoading = TRUE, !.financialsLoading = TRUE,
              !.error = NoError, !.data = NoData, !.snapshotData = NoSide,
              !.financialsData = NoSide, !.currentTicker = t]

\* The first call that has not been used.
FreeCall(c) ==
    /\ calls[c].pc = "idle"
    /\ c > 1 => calls[c - 1].pc # "idle"

\* fetchTickerData(ticker): the three requests are sent together.
FetchTickerData(c, t) ==
    /\ FreeCall(c)
    /\ page' = FetchStart(page, t)
    /\ calls' = [k \in Calls |-> IF k = c
                                 THEN [calls[k] EXCEPT !.pc = "fetching", !.ticker = t]
                                 ELSE Ended(calls[k])]
    /\ Rerender(page, page')
    /\ UNCHANGED clicks
    /\ UNCHANGED <<sfVars, cacheVars, testerVars>>

\* The effect of Home on mount: the URL names a ticker.
Load(c) ==
    /\ c = 1
    /\ \E t \in Tickers : FetchTickerData(c, t)

\* TickerForm: the form is submitted; its controls are disabled while loading.
Submit(c) ==
    /\ ~page.loading
    /\ \E t \in Tickers : FetchTickerData(c, t)

\* Variant: the catch block leaves the flags of the snapshot and the
\* financials as they are.
CatchKeepsSideLoading(p, q, msg) ==
    [page |-> [p EXCEPT !.error = msg, !.loading = FALSE],
     call |-> Failed(q)]

\* Variant: the catch block shows the empty overview instead of the error.
CatchAsNoData(p, q, msg) ==
    [page |-> [p EXCEPT !.data = OverviewData(q.ticker, FALSE), !.loading = FALSE,
                        !.snapshotLoading = FALSE, !.financialsLoading = FALSE],
     call |-> Failed(q)]

\* The catch block of fetchTickerData.
Catch(p, q, msg) ==
    [page |-> [p EXCEPT !.error = msg, !.loading = FALSE, !.snapshotLoading = FALSE,
                        !.financialsLoading = FALSE],
     call |-> Failed(q)]

\* Variant: financials that are not ok are thrown like an overview that is
\* not ok.
ContinueAtFinancialsStrict(p, q) ==
    IF Ok(q.fin)
    THEN [page |-> p, call |-> [q EXCEPT !.pc = "finBody"]]
    ELSE Catch(p, q, ErrorMessage("absent", q.fin))

\* fetchTickerData at if (financialsResponse.ok).
ContinueAtFinancials(p, q) ==
    IF Ok(q.fin)
    THEN [page |-> p, call |-> [q EXCEPT !.pc = "finBody"]]
    ELSE [page |-> [p EXCEPT !.financialsLoading = FALSE], call |-> Returned(q)]

\* Variant: a snapshot that is not ok is thrown like an overview that is not ok.
ContinueAtSnapshotStrict(p, q) ==
    IF Ok(q.snap)
    THEN [page |-> p, call |-> [q EXCEPT !.pc = "snapBody"]]
    ELSE Catch(p, q, ErrorMessage("absent", q.snap))

\* fetchTickerData at if (snapshotResponse.ok).
ContinueAtSnapshot(p, q) ==
    IF Ok(q.snap)
    THEN [page |-> p, call |-> [q EXCEPT !.pc = "snapBody"]]
    ELSE ContinueAtFinancials([p EXCEPT !.snapshotLoading = FALSE], q)

\* A continuation of fetchTickerData ran to its next await and left the page
\* and the call as in the record to.
PageStep(c, to) ==
    /\ page' = to.page
    /\ calls' = [calls EXCEPT ![c] = to.call]
    /\ Rerender(page, page')
    /\ UNCHANGED clicks
    /\ UNCHANGED <<sfVars, cacheVars, testerVars>>

\* Promise.all settles and the body of the overview has been read: a fetch
\* or the reading rejected; or the overview is not ok: throw, catch; or
\* setData, setLoading(false), on to the snapshot.
AllSettle(c) ==
    /\ calls[c].pc = "fetching"
    /\ \/ \E which \in Requests :
            PageStep(c, Catch(page, [calls[c] EXCEPT !.rejected = which], Rejection))
       \/ \E ov \in OverviewStatuses \ {200}, shape \in ErrorShapes :
            PageStep(c, Catch(page, [calls[c] EXCEPT !.ov = ov], ErrorMessage(shape, ov)))
       \/ \E results \in BOOLEAN, snap \in SideStatuses, fin \in SideStatuses :
            PageStep(c, ContinueAtSnapshot(
                [page EXCEPT !.data = OverviewData(calls[c].ticker, results),
                             !.loading = FALSE],
                [calls[c] EXCEPT !.ov = 200, !.snap = snap, !.fin = fin]))

\* The body of the snapshot has been read.
SnapshotBody(c) ==
    /\ calls[c].pc = "snapBody"
    /\ \/ PageStep(c, ContinueAtFinancials(
                [page EXCEPT !.snapshotData = SideData(calls[c].ticker),
                             !.snapshotLoading = FALSE],
                calls[c]))
       \/ PageStep(c, Catch(page, [calls[c] EXCEPT !.rejected = "snapshot"], Rejection))

\* The body of the financials has been read.
FinancialsBody(c) ==
    /\ calls[c].pc = "finBody"
    /\ \/ PageStep(c, [page |-> [page EXCEPT !.financialsData = SideData(calls[c].ticker),
                                             !.financialsLoading = FALSE],
                       call |-> Returned(calls[c])])
       \/ PageStep(c, Catch(page, [calls[c] EXCEPT !.rejected = "financials"], Rejection))

\* A handler of StockChart ran: the page and the price display are untouched.
ChartFrame ==
    /\ UNCHANGED <<page, calls, price, store, priceCalls>>
    /\ UNCHANGED <<sfVars, cacheVars, testerVars>>

\* handlePeriodChange(p) and the effect on [ticker, selectedPeriod].
SelectPeriod(p) ==
    /\ chart.mounted
    /\ clicks < MaxChartActions
    /\ p # chart.selectedPeriod
    /\ chart' = IF chart.ticker = ""
                THEN [chart EXCEPT !.selectedPeriod = p, !.chartData = ""]
                ELSE FetchChartData([chart EXCEPT !.selectedPeriod = p])
    /\ chartCalls' = IF chart.ticker = "" THEN chartCalls
                     ELSE IssueChartCall(chartCalls, chart.ticker, p)
    /\ clicks' = clicks + 1
    /\ ChartFrame

\* handleRetry: the button of the chart's error alert.
Retry ==
    /\ ChartErrorShown
    /\ clicks < MaxChartActions
    /\ chart.ticker # ""
    /\ chart' = FetchChartData(chart)
    /\ chartCalls' = IssueChartCall(chartCalls, chart.ticker, chart.selectedPeriod)
    /\ clicks' = clicks + 1
    /\ ChartFrame

\* Variant: the catch block fetches again.
ChartCallAfterFailureRefetch(q) == [q EXCEPT !.pc = "fetching"]

\* The chart call after catch and finally.
ChartCallAfterFailure(q) == ChartReturned

\* catch of fetchChartData, then finally.
ChartCatch(k, msg) ==
    /\ chart' = [chart EXCEPT !.error = msg, !.chartData = "", !.loading = FALSE,
                              !.lastStatus = msg.status]
    /\ chartCalls' = [chartCalls EXCEPT ![k] = ChartCallAfterFailure(@)]

\* fetchChartData after its awaits: the fetch or the reading of the body
\* rejected; or the history is not ok: throw, catch; or setChartData; then
\* finally.
ChartSettles(k) ==
    /\ chartCalls[k].pc = "fetching"
    /\ \/ ChartCatch(k, Rejection)
       \/ \E status \in HistoryStatuses \ {200}, shape \in ErrorShapes :
            ChartCatch(k, ErrorMessage(shape, status))
       \/ /\ chart' = [chart EXCEPT !.chartData = chartCalls[k].period, !.loading = FALSE,
                                    !.lastStatus = 200]
          /\ chartCalls' = [chartCalls EXCEPT ![k] = ChartReturned]
    /\ UNCHANGED clicks
    /\ ChartFrame

\* fetchPriceSummary for ticker t after its awaits: setPriceSummary if the
\* response is ok; an error is only written to the console; then finally.
PriceSettles(t) ==
    /\ t \in priceCalls
    /\ priceCalls' = priceCalls \ {t}
    /\ \/ price' = [price EXCEPT !.loading = FALSE, !.lastStatus = 0]
       \/ \E status \in SideStatuses :
            price' = IF Ok(status)
                     THEN [price EXCEPT !.summary = t, !.loading = FALSE, !.lastStatus = status]
                     ELSE [price EXCEPT !.loading = FALSE, !.lastStatus = status]
    /\ UNCHANGED <<page, calls, chart, chartCalls, clicks, store>>
    /\ UNCHANGED <<sfVars, cacheVars, testerVars>>

UiInit ==
    /\ page = InitialPage
    /\ calls = [c \in Calls |-> NewCall]
    /\ chart = ChartUnmounted
    /\ chartCalls = [k \in ChartCalls |-> NewChartCall]
    /\ clicks = 0
    /\ store = ""
    /\ price = PriceUnmounted
    /\ priceCalls = {}

\* The page with the components it mounts; the controls of the chart are
\* not used.
UiNext ==
    \/ \E c \in Calls : Load(c)
    \/ \E c \in Calls : Submit(c)
    \/ \E c \in Calls : AllSettle(c)
    \/ \E c \in Calls : SnapshotBody(c)
    \/ \E c \in Calls : FinancialsBody(c)
    \/ \E k \in ChartCalls : ChartSettles(k)
    \/ \E t \in Tickers : PriceSettles(t)

\* The page is loaded once and the controls of the chart are used.
ChartNext ==
    \/ Load(1)
    \/ \E c \in Calls : AllSettle(c)
    \/ \E c \in Calls : SnapshotBody(c)
    \/ \E c \in Calls : FinancialsBody(c)
    \/ \E p \in Periods : SelectPeriod(p)
    \/ Retry
    \/ \E k \in ChartCalls : ChartSettles(k)
    \/ \E t \in Tickers : PriceSettles(t)

----------------------------------------------------------------------------
(* Salesforce Query Tester (salesforce_app/src/components/salesforce-query.tsx) *)

\* const DEFAULT_QUERY = `...`.trim()
DEFAULT_QUERY ==
    "SELECT \n\tSUM(Amount)\nFROM Opportunity \nWHERE Stagename = 'Closed Won' AND Booking_Quarter__c = '2025-Q3'"

\* What the textarea can hold: the default, the placeholder typed in, the
\* sample statement of the README, nothing.
Queries == {DEFAULT_QUERY, "SELECT Id, Name FROM Account LIMIT 10",
            "SELECT Id, Name, Type FROM Account LIMIT 10", ""}

\* data.records of an answer.
RecordLists == {<<>>, <<"001A">>, <<"001A", "001B">>}

\* err.message of what apiFetch rejects with: the fetch failed, or the
\* server answered with an error.
TesterMessages == {"Failed to fetch", "Request failed"}
NoTesterError == "null"

\* useState of SalesforceQuery, after the effect on mount.
InitialTester == [query |-> DEFAULT_QUERY, records |-> <<>>, isLoading |-> FALSE,
                  error |-> NoTesterError, hasFetched |-> FALSE]

\* A call of runQuery: its argument soql, the body of the POST to
\* /api/salesforce/query, and the button that made it.
NoTesterCall == [pc |-> "idle", soql |-> "", via |-> ""]

\* The error box and the table of the card.
TesterErrorShown == tester.error # NoTesterError
TesterTableShown == Len(tester.records) > 0

\* runQuery(soql) up to its await.
RunQuery(t, soql, via) ==
    /\ tester' = [t EXCEPT !.isLoading = TRUE, !.error = NoTesterError]
    /\ testerCall' = [pc |-> "fetching", soql |-> soql, via |-> via]
    /\ UNCHANGED <<sfVars, cacheVars, uiVars>>

\* The textarea: onChange.
EditQuery(q) ==
    /\ q # tester.query
    /\ tester' = [tester EXCEPT !.query = q]
    /\ UNCHANGED testerCall
    /\ UNCHANGED <<sfVars, cacheVars, uiVars>>

\* The button Run Query, disabled while isLoading.
ClickRun ==
    /\ ~tester.isLoading
    /\ RunQuery(tester, tester.query, "run")

\* handleSample: the button Run Sample Query, disabled while isLoading.
HandleSample ==
    /\ ~tester.isLoading
    /\ RunQuery([tester EXCEPT !.query = DEFAULT_QUERY], DEFAULT_QUERY, "sample")

\* runQuery after its await: setRecords and setHasFetched; or catch; then
\* finally.
TesterSettles ==
    /\ testerCall.pc = "fetching"
    /\ \/ \E recs \in RecordLists :
            tester' = [tester EXCEPT !.records = recs, !.hasFetched = TRUE,
                                     !.isLoading = FALSE]
       \/ \E msg \in TesterMessages :
            tester' = [tester EXCEPT !.error = msg, !.hasFetched = TRUE,
                                     !.isLoading = FALSE]
    /\ testerCall' = NoTesterCall
    /\ UNCHANGED <<sfVars, cacheVars, uiVars>>

TesterInit ==
    /\ tester = InitialTester
    /\ testerCall = NoTesterCall

TesterNext ==
    \/ \E q \in Queries : EditQuery(q)
    \/ ClickRun
    \/ HandleSample
    \/ TesterSettles

----------------------------------------------------------------------------
(* Salesforce proxy: specification *)

SfInit ==
    /\ rawEnv \in [REQUIRED_SALESFORCE_KEYS -> EnvValues]
    /\ cachedToken = NULL
    /\ tokenExpiresAt = 0
    /\ now = 0
    /\ ticks = 0
    /\ req = [r \in Reqs |-> NewReq]
    /\ issued = 0
    /\ refreshes = <<>>
    /\ running = TRUE

Init == SfInit /\ CacheInit /\ UiInit /\ TesterInit

Next ==
    \/ \E r \in Reqs : ReceiveAccounts(r)
    \/ \E r \in Reqs : ReceiveQuery(r)
    \/ \E r \in Reqs : ReceiveCallback(r)
    \/ \E r \in Reqs : ReceiveStatus(r)
    \/ \E r \in Reqs : TokenSettles(r)
    \/ \E r \in Reqs : QuerySettles(r)
    \/ \E r \in Reqs : ExchangeSettles(r)
    \/ Tick

Spec == Init /\ [][Next]_vars

----------------------------------------------------------------------------
(* Salesforce proxy: properties *)

Soql == {"query", "accounts"}
Last(s) == s[Len(s)]

\* C1: a request that reaches refreshAccessToken contacts the token endpoint
\* if and only if no token is cached or the cached token's expiry is at most
\* 30 s after now (boundary included); otherwise it uses the cached token and
\* makes no token-endpoint request.
C1_RefreshIffStale ==
    \A r \in Reqs :
        req[r].ranSoql =>
            /\ req[r].tokenCalls \in {0, 1}
            /\ req[r].tokenCalls = 1 <=>
                   \/ req[r].sawToken = NULL
                   \/ req[r].sawExpiry <= req[r].now + 30000
            /\ req[r].tokenCalls = 0 =>
                   /\ req[r].usedToken = req[r].sawToken.access_token
                   /\ req[r].pc # "awaitToken"

\* A request arrived exactly 30 s before the expiry of the cached token and
\* contacted the token endpoint.
C1_Witness ==
    \E r \in Reqs :
        /\ req[r].ranSoql
        /\ req[r].sawToken # NULL
        /\ req[r].sawExpiry = req[r].now + 30000
        /\ req[r].tokenCalls = 1

\* C2 as stated: with the credentials configured, a failed refresh-token
\* grant makes POST /api/salesforce/query answer 503 with the message telling
\* the operator to configure the credentials, and the process keeps running.
C2_RefreshFailureIs503 ==
    \A r \in Reqs :
        (req[r].endpoint = "query" /\ req[r].refreshFailed) =>
            /\ req[r].response.status = 503
            /\ req[r].response.message = MsgMissingQuery
            /\ running

\* C2 as amended: with the credentials configured, a failed refresh-token
\* grant makes POST /api/salesforce/query answer 500 with the generic body
\* {message: "Internal Server Error"} of the error middleware, and the
\* process keeps running.
C2_RefreshFailureIs500 ==
    \A r \in Reqs :
        (req[r].endpoint = "query" /\ req[r].refreshFailed) =>
            /\ isSalesforceConfigured
            /\ req[r].pc = "done"
            /\ req[r].response = Response(500, "Internal Server Error", {})
            /\ running

\* A POST /query whose refresh-token grant failed has been answered.
C2_Witness ==
    \E r \in Reqs :
        /\ req[r].endpoint = "query"
        /\ req[r].refreshFailed
        /\ req[r].response # NoResponse

\* C3: every request makes at most one token-endpoint request; when its
\* refresh fails, the request is over with an error, without a second attempt
\* and without a SOQL query having been sent to Salesforce.
C3_OneRefreshAttempt ==
    \A r \in Reqs :
        /\ req[r].tokenCalls <= 1
        /\ req[r].refreshFailed =>
               /\ req[r].pc = "done"
               /\ req[r].tokenCalls = 1
               /\ req[r].soqlCalls = 0
               /\ req[r].response.status >= 400

\* A runSoql whose only refresh attempt failed.
C3_Witness ==
    \E r \in Reqs :
        /\ req[r].endpoint \in Soql
        /\ req[r].refreshFailed
        /\ req[r].tokenCalls = 1
        /\ req[r].soqlCalls = 0

\* C4: when one of the three required variables is unset or empty at
\* startup, every POST /query and GET /accounts is answered 503 with a
\* "credentials are missing" message, whatever its body, with no request to
\* the token endpoint or to Salesforce.
C4_MissingCredentialsIs503 ==
    (\E key \in REQUIRED_SALESFORCE_KEYS :
        rawEnv[key] = Undefined \/ rawEnv[key].len = 0) =>
    \A r \in Reqs :
        req[r].endpoint \in Soql =>
            /\ req[r].pc = "done"
            /\ req[r].response.status = 503
            /\ req[r].response.message \in {MsgMissingQuery, MsgMissingAccounts}
            /\ ~req[r].ranSoql
            /\ req[r].tokenCalls = 0
            /\ req[r].soqlCalls = 0

\* Only the refresh token is missing (set to the empty string); a POST
\* /query with an invalid body and a GET /accounts have been answered.
C4_Witness ==
    /\ rawEnv["SALESFORCE_CLIENT_ID"].len = 1
    /\ rawEnv["SALESFORCE_CLIENT_SECRET"].len = 1
    /\ rawEnv["SALESFORCE_REFRESH_TOKEN"] = [defined |-> TRUE, len |-> 0]
    /\ \E r \in Reqs :
        /\ req[r].endpoint = "query"
        /\ ~QuerySchemaOk(req[r].body)
        /\ req[r].response.status = 503
    /\ \E r \in Reqs :
        /\ req[r].endpoint = "accounts"
        /\ req[r].response.status = 503

\* C5: no response of the Express server carries the client secret, a
\* refresh token or an access token.
C5_NoCredentialInResponse ==
    \A r \in Reqs :
        \A it \in req[r].response.body : it.kind \notin SecretKinds

\* C6: the slot holds what the refresh that completed last wrote, token and
\* expiry together; and whatever a request reads from the slot is the token
\* of one refresh with the expiry of that same refresh.
C6_SlotIsLastRefresh ==
    /\ IF refreshes = <<>>
       THEN cachedToken = NULL /\ tokenExpiresAt = 0
       ELSE /\ cachedToken.access_token = Last(refreshes).token
            /\ tokenExpiresAt = Last(refreshes).started + TokenLifetimeMs
    /\ \A r \in Reqs :
        (req[r].ranSoql /\ req[r].sawToken # NULL) =>
            \E i \in 1..Len(refreshes) :
                /\ refreshes[i].token = req[r].sawToken.access_token
                /\ req[r].sawExpiry = refreshes[i].started + TokenLifetimeMs

\* Two refreshes overlapped and completed in the opposite order of their
\* starts.
C6_Witness ==
    /\ Len(refreshes) = 2
    /\ refreshes[1].started > refreshes[2].started

----------------------------------------------------------------------------
(* Response cache: specification.  The Salesforce proxy runs with its      *)
(* credentials set and receives no request.                                *)

\* C12: no response of the Express server carries the raw error text of the
\* Salesforce token or query endpoint.
C12_NoProviderTextInResponse ==
    \A r \in Reqs :
        req[r].pc = "done" =>
            \A it \in req[r].response.body : it.kind # "provider_error"

\* C13: a GET /accounts or POST /query whose token refresh or SOQL call
\* threw is answered 500 with the body {message: "Internal Server Error"}
\* and nothing else.
C13_ExceptionIsGeneric500 ==
    \A r \in Reqs :
        (req[r].endpoint \in Soql /\ (req[r].refreshFailed \/ req[r].soqlFailed)) =>
            /\ req[r].pc = "done"
            /\ req[r].response = Response(500, "Internal Server Error", {})

\* A GET /accounts whose SOQL call failed and a POST /query whose refresh
\* failed have both been answered.
C13_Witness ==
    /\ \E r \in Reqs :
        /\ req[r].endpoint = "accounts"
        /\ req[r].soqlFailed
        /\ req[r].response.status = 500
    /\ \E r \in Reqs :
        /\ req[r].endpoint = "query"
        /\ req[r].refreshFailed
        /\ req[r].response.status = 500

\* C14 as stated: every 503 carries a missing field that lists exactly the
\* required variables that are absent.
C14_503CarriesMissing ==
    \A r \in Reqs :
        req[r].response.status = 503 =>
            /\ Item("missing", 0) \in req[r].response.body
            /\ \A key \in REQUIRED_SALESFORCE_KEYS :
                   Item(key, 0) \in req[r].response.body <=> Falsy(rawEnv[key])

\* C14: the 503 of GET /accounts and POST /query carries a message only; the
\* missing field is part of the 200 answer of GET /status, where it lists
\* exactly the required variables that are unset or empty (none when all
\* are set), next to configured.
C14_MissingIsInStatus ==
    \A r \in Reqs :
        /\ req[r].response.status = 503 =>
            /\ req[r].endpoint \in Soql
            /\ req[r].response.body = {}
        /\ (req[r].endpoint = "status" /\ req[r].pc = "done") =>
            /\ req[r].response.status = 200
            /\ Item("missing", 0) \in req[r].response.body
            /\ \A key \in REQUIRED_SALESFORCE_KEYS :
                   Item(key, 0) \in req[r].response.body <=>
                       (rawEnv[key] = Undefined \/ rawEnv[key].len = 0)
            /\ Item("configured", 1) \in req[r].response.body <=>
                   \A key \in REQUIRED_SALESFORCE_KEYS :
                       rawEnv[key] # Undefined /\ rawEnv[key].len > 0

\* The client secret alone is missing; GET /status named it and nothing
\* else, and a GET /accounts was answered 503.
C14_Witness ==
    /\ rawEnv["SALESFORCE_CLIENT_ID"].len = 1
    /\ rawEnv["SALESFORCE_REFRESH_TOKEN"].len = 1
    /\ rawEnv["SALESFORCE_CLIENT_SECRET"] = Undefined
    /\ \E r \in Reqs :
        /\ req[r].endpoint = "status"
        /\ req[r].response.body =
               {Item("configured", 0), Item("missing", 0),
                Item("SALESFORCE_CLIENT_SECRET", 0)}
    /\ \E r \in Reqs :
        /\ req[r].endpoint = "accounts"
        /\ req[r].response.status = 503

\* C15: the server process stays up whatever its requests ended in: the
\* next request can still arrive on every route, and every request waiting
\* for the token endpoint or for Salesforce can still be answered.
C15_NoFailureIsFatal ==
    /\ running
    /\ \A r \in Reqs :
        /\ (req[r].pc = "new" /\ (r > 1 => req[r - 1].pc # "new")) =>
            /\ ENABLED ReceiveAccounts(r)
            /\ ENABLED ReceiveQuery(r)
            /\ ENABLED ReceiveCallback(r)
            /\ ENABLED ReceiveStatus(r)
        /\ req[r].pc = "awaitToken" => ENABLED TokenSettles(r)
        /\ req[r].pc = "awaitQuery" => ENABLED QuerySettles(r)
        /\ req[r].pc = "awaitExchange" => ENABLED ExchangeSettles(r)

\* A request failed (the code exchange of a callback, or a refresh) and the
\* request after it arrived after the failure and was answered.
C15_Witness ==
    \E r \in Reqs :
        /\ r + 1 \in Reqs
        /\ req[r].pc = "done"
        /\ req[r].response.status = 500
        /\ req[r].endpoint = "callback"
        /\ req[r + 1].pc = "done"
        /\ req[r + 1].endpoint = "accounts"
        /\ req[r + 1].tokenCalls = 1
        /\ req[r + 1].response.status \in {200, 500}

C16_Step ==
    /\ cachedToken # NULL => cachedToken' # NULL
    /\ \A r \in Reqs :
        /\ (req[r].pc = "awaitToken" /\ req'[r].refreshFailed) =>
            /\ cachedToken' = cachedToken
            /\ tokenExpiresAt' = tokenExpiresAt
        /\ (req[r].pc = "awaitQuery" /\ req'[r].soqlFailed) =>
            /\ cachedToken' = cachedToken
            /\ tokenExpiresAt' = tokenExpiresAt

\* C16: a step in which a refresh fails leaves cachedToken and
\* tokenExpiresAt as they were, so does a step in which a SOQL call fails,
\* and no step empties a slot that holds a token.
C16_FailureLeavesTokenAlone == [][C16_Step]_vars

\* A refresh failed while the slot held a stale token, and the slot still
\* holds that token with its expiry.
C16_Witness ==
    \E r \in Reqs :
        /\ req[r].refreshFailed
        /\ req[r].sawToken # NULL
        /\ cachedToken = req[r].sawToken
        /\ tokenExpiresAt = req[r].sawExpiry

\* C20: with all credentials set, a POST /query whose query is absent, not a
\* string or empty is answered 400 "Invalid query" with the issues, before
\* any call to the token endpoint or to Salesforce.
C20_InvalidBodyIs400 ==
    isSalesforceConfigured =>
        \A r \in Reqs :
            (req[r].endpoint = "query"
                /\ (req[r].body.type # "string" \/ req[r].body.len = 0)) =>
                /\ req[r].pc = "done"
                /\ req[r].response = Response(400, "Invalid query", {Item("issues", 0)})
                /\ req[r].tokenCalls = 0
                /\ req[r].soqlCalls = 0
                /\ ~req[r].ranSoql

\* With all credentials set, a query with no query field and one with the
\* empty string have been answered 400.
C20_Witness ==
    /\ \A key \in REQUIRED_SALESFORCE_KEYS : rawEnv[key].len = 1
    /\ \E r \in Reqs :
        /\ req[r].endpoint = "query"
        /\ req[r].body = [type |-> "undefined", len |-> 0]
        /\ req[r].response.status = 400
    /\ \E r \in Reqs :
        /\ req[r].endpoint = "query"
        /\ req[r].body = [type |-> "string", len |-> 0]
        /\ req[r].response.status = 400

\* C24 as stated: tokenExpiresAt never decreases.
C24_ExpiryNeverDecreases == [][tokenExpiresAt' >= tokenExpiresAt]_vars

\* A step in which a refresh succeeds.
RefreshCompletes == Len(refreshes') = Len(refreshes) + 1

C24_Step ==
    /\ tokenExpiresAt' # tokenExpiresAt => RefreshCompletes
    /\ RefreshCompletes => tokenExpiresAt' = Last(refreshes').started + TokenLifetimeMs
    /\ tokenExpiresAt' < tokenExpiresAt <=>
            /\ RefreshCompletes
            /\ refreshes # <<>>
            /\ Last(refreshes').started < Last(refreshes).started

\* C24: only a successful refresh changes tokenExpiresAt, and it writes its
\* own start plus 14 minutes; the expiry decreases exactly when the refresh
\* that completes started earlier than the refresh that wrote the value it
\* overwrites, and never otherwise.
C24_ExpiryFollowsCompletionOrder == [][C24_Step]_vars

\* Two refreshes overlapped, the one started first completed last and set
\* the expiry back to its own.
C24_Witness ==
    /\ Len(refreshes) = 2
    /\ refreshes[2].started < refreshes[1].started
    /\ tokenExpiresAt = refreshes[2].started + TokenLifetimeMs
    /\ tokenExpiresAt < refreshes[1].started + TokenLifetimeMs

\* The request was served the token of the slot without a refresh.
ServedFromCache(q) == q.ranSoql /\ q.tokenCalls = 0 /\ q.usedToken # 0

\* C25: after a successful refresh tokenExpiresAt is the start of that
\* refresh plus 14 minutes; a request served a token from the cache reads
\* its clock less than 13 minutes 30 seconds after the start of the refresh
\* that obtained the token.
C25_CachedTokenIsYoung ==
    /\ refreshes # <<>> => tokenExpiresAt = Last(refreshes).started + 14 * 60 * 1000
    /\ \A r \in Reqs :
        ServedFromCache(req[r]) =>
            \E i \in 1..Len(refreshes) :
                /\ refreshes[i].token = req[r].usedToken
                /\ req[r].now >= refreshes[i].started
                /\ req[r].now - refreshes[i].started < 13 * 60 * 1000 + 30 * 1000

\* A request was served the cached token in the last millisecond before the
\* token enters the refresh margin.
C25_Witness ==
    \E r \in Reqs :
        /\ ServedFromCache(req[r])
        /\ \E i \in 1..Len(refreshes) :
            /\ refreshes[i].token = req[r].usedToken
            /\ req[r].now - refreshes[i].started = 13 * 60 * 1000 + 30 * 1000 - 1

SfIdle ==
    /\ rawEnv = [key \in REQUIRED_SALESFORCE_KEYS |-> [defined |-> TRUE, len |-> 1]]
    /\ cachedToken = NULL
    /\ tokenExpiresAt = 0
    /\ now = 0
    /\ ticks = 0
    /\ req = [r \in Reqs |-> NewReq]
    /\ issued = 0
    /\ refreshes = <<>>
    /\ running = TRUE

CacheStart == SfIdle /\ CacheInit /\ UiInit /\ TesterInit

CacheNext ==
    \/ \E r \in CacheReqs : CacheRequest(r)
    \/ \E r \in CacheReqs : UpstreamReturns(r)
    \/ \E r \in CacheReqs : UpstreamFails(r)
    \/ CacheTick

CacheSpec == CacheStart /\ [][CacheNext]_vars

----------------------------------------------------------------------------
(* Response cache: properties *)

Arrives(r) == creq[r].pc = "new" /\ creq'[r].pc # "new"
Stores(r) == creq[r].pc = "upstream" /\ creq'[r].pc = "done" /\ creq'[r].status = 200
Fails(r) == creq[r].pc = "upstream" /\ creq'[r].pc = "done" /\ creq'[r].status # 200

C8_Step ==
    \A r \in CacheReqs :
        /\ Arrives(r) =>
            LET k == creq'[r].key
                e == Lookup(cache, k)
            IN  /\ creq'[r].hit <=> (e.present /\ cnow < e.expiresAt)
                /\ creq'[r].hit =>
                    /\ creq'[r].output = e.value
                    /\ creq'[r].calls = 0
                    /\ cache' = cache
                    /\ upstreamCalls' = upstreamCalls
                /\ ~creq'[r].hit =>
                    /\ ~Lookup(cache', k).present
                    /\ creq'[r].pc = "upstream"
                    /\ creq'[r].calls = 1
                    /\ upstreamCalls' = upstreamCalls + 1
        /\ creq[r].pc = "upstream" => creq'[r].calls = 1
        /\ Stores(r) =>
            Lookup(cache', creq[r].key) =
                Entry(creq[r].key, creq'[r].output, cnow + 21600, r)

C8_ExpiredIsMiss == [][C8_Step]_vars

\* A request arrived at the second its entry expired, called the upstream
\* provider once and stored the result with a new expiry.
C8_Witness ==
    \E r \in CacheReqs :
        /\ creq[r].saw.present
        /\ creq[r].issuedAt = creq[r].saw.expiresAt
        /\ creq[r].pc = "done"
        /\ creq[r].status = 200
        /\ creq[r].calls = 1
        /\ creq[r].stored.expiresAt = creq[r].doneAt + 21600
        /\ Lookup(cache, creq[r].key) = creq[r].stored

\* C9 as stated: a cache write leaves the written entry under its key and
\* changes no entry of another key.
C9_OriginalStep ==
    \A r \in CacheReqs :
        Stores(r) =>
            /\ Lookup(cache', creq[r].key) = creq'[r].stored
            /\ \A k2 \in Keys \ {creq[r].key} : Lookup(cache', k2) = Lookup(cache, k2)

C9_AmendedStep ==
    \A r \in CacheReqs :
        Stores(r) =>
            /\ Lookup(cache', creq[r].key) = creq'[r].stored
            /\ creq'[r].stored.by = r
            /\ \A k2 \in Keys \ {creq[r].key} :
                \/ Lookup(cache', k2) = Lookup(cache, k2)
                \/ /\ ~Lookup(cache, creq[r].key).present
                   /\ Len(cache) = CACHE_MAX_SIZE
                   /\ cache[1].key = k2
                   /\ ~Lookup(cache', k2).present

C9_EntryIsLastWrite ==
    \A k \in Keys :
        Lookup(cache, k).present =>
            LET w == Lookup(cache, k).by IN
            /\ creq[w].stored = Lookup(cache, k)
            /\ \A r \in CacheReqs :
                (creq[r].key = k /\ creq[r].stored.present)
                    => creq[r].doneAt <= creq[w].doneAt

C10_Step ==
    \A r \in CacheReqs :
        /\ Fails(r) =>
            /\ cache' = cache
            /\ creq'[r].status \in {502, 503}
            /\ creq'[r].output = 0
            /\ ~creq'[r].stored.present
            /\ \A i \in 1..Len(cache') : cache'[i].by # r
        /\ (Arrives(r) /\ ~Lookup(cache, creq'[r].key).present) =>
            /\ creq'[r].pc = "upstream"
            /\ creq'[r].calls = 1

C11_Step ==
    \A r \in CacheReqs :
        (Stores(r) /\ Len(cache) = CACHE_MAX_SIZE /\ ~Lookup(cache, creq[r].key).present) =>
            /\ Len(cache') = CACHE_MAX_SIZE
            /\ Lookup(cache', creq[r].key) = creq'[r].stored
            /\ \E i \in 1..Len(cache) : ~Lookup(cache', cache[i].key).present

C11_Size ==
    /\ Len(cache) <= CACHE_MAX_SIZE
    /\ \A i \in 1..Len(cache) : \A j \in 1..Len(cache) :
           cache[i].key = cache[j].key => i = j

C11_CacheIsBounded == [][C11_Step]_vars /\ []C11_Size

\* The cache is full, and an entry that had not expired is gone because a
\* later request stored another key.
C11_Witness ==
    \E r1 \in CacheReqs, r2 \in CacheReqs :
        /\ creq[r1].stored.present
        /\ creq[r2].stored.present
        /\ creq[r1].key # creq[r2].key
        /\ creq[r1].doneAt <= creq[r2].issuedAt
        /\ cnow < creq[r1].stored.expiresAt
        /\ ~Lookup(cache, creq[r1].key).present
        /\ Lookup(cache, creq[r2].key) = creq[r2].stored
        /\ Len(cache) = CACHE_MAX_SIZE

----------------------------------------------------------------------------
(* Finance dashboard: specification *)

UiStart == SfIdle /\ CacheInit /\ UiInit /\ TesterInit

UiSpec == UiStart /\ [][UiNext]_vars

ChartSpec == UiStart /\ [][ChartNext]_vars

\* A non-2xx status.
NotOk(status) == status # 0 /\ ~Ok(status)

\* fetchTickerData call c returns in this step.
Returns(c) == calls[c].pc \notin {"idle", "done", "failed"} /\ calls'[c].pc \in {"done", "failed"}

\* A history response is handled in this step.
HistoryHandled ==
    /\ chart.mounted
    /\ chart'.mounted
    /\ \E k \in ChartCalls : chartCalls[k].pc = "fetching" /\ chartCalls'[k].pc # "fetching"

\* A price-summary response is handled in this step.
PriceHandled ==
    /\ price.mounted
    /\ price'.mounted
    /\ \E t \in Tickers : t \in priceCalls /\ t \notin priceCalls'

\* C17 as stated: when a request of the dashboard (overview, snapshot,
\* financials, history, price summary) is answered with a non-2xx status,
\* an error is shown once the response has been handled.
C17_OriginalStep ==
    /\ \A c \in Calls :
        (Returns(c) /\ (NotOk(calls'[c].ov) \/ NotOk(calls'[c].snap) \/ NotOk(calls'[c].fin))) =>
            page'.error.kind # "none"
    /\ (HistoryHandled /\ NotOk(chart'.lastStatus)) => chart'.error.kind # "none"
    /\ (PriceHandled /\ NotOk(price'.lastStatus)) =>
            (page'.error.kind # "none" \/ chart'.error.kind # "none")

C17_AmendedStep ==
    /\ \A c \in Calls :
        Returns(c) =>
            /\ NotOk(calls'[c].ov) =>
                /\ calls'[c].pc = "failed"
                /\ page'.error \in {ErrorMessage(shape, calls'[c].ov) : shape \in ErrorShapes}
                /\ ~page'.loading
            /\ (calls'[c].pc = "failed" /\ ~NotOk(calls'[c].ov)) =>
                page'.error = Rejection
            /\ calls'[c].pc = "done" => page'.error = page.error
    /\ (HistoryHandled /\ NotOk(chart'.lastStatus)) =>
            /\ chart'.error \in {ErrorMessage(shape, chart'.lastStatus) : shape \in ErrorShapes}
            /\ ~chart'.loading
            /\ page'.error = page.error
    /\ PriceHandled =>
            /\ page'.error = page.error
            /\ chart' = chart

PagePending(cs) ==
    Cardinality({c \in Calls : cs[c].pc = "fetching"}) * 3
        + Cardinality({c \in Calls : cs[c].pc = "snapBody"}) * 2
        + Cardinality({c \in Calls : cs[c].pc = "finBody"})
ChartPending(cc) == Cardinality({k \in ChartCalls : cc[k].pc = "fetching"})

\* The step is an action of the user: a click on a control of the chart,
\* or fetchTickerData is called (form submit, or the page is loaded).
UserAction ==
    \/ clicks' # clicks
    \/ \E c \in Calls : calls[c].pc = "idle" /\ calls'[c].pc = "fetching"

C18_Step ==
    UserAction \/
        /\ PagePending(calls') <= PagePending(calls)
        /\ \* a step of the chart or of the price display only uses up a request
           (page' = page /\ calls' = calls) =>
                /\ ChartPending(chartCalls') <= ChartPending(chartCalls)
                /\ Cardinality(priceCalls') <= Cardinality(priceCalls)
                /\ ChartPending(chartCalls') + Cardinality(priceCalls')
                       < ChartPending(chartCalls) + Cardinality(priceCalls)
        /\ \* a step of fetchTickerData uses one up, and sends requests only
           \* by showing an overview it has received
           (page' # page \/ calls' # calls) =>
                /\ PagePending(calls') < PagePending(calls)
                /\ (ChartPending(chartCalls') > ChartPending(chartCalls)
                        \/ priceCalls' \ priceCalls # {}) =>
                       /\ ~Displayed(page)
                       /\ Displayed(page')
                       /\ \A c \in Calls : calls'[c].pc # "failed" \/ calls[c].pc = "failed"

\* C18: a step that is not an action of the user (Retry, a period, the form,
\* the load of the page) sends no request again: handling a response,
\* failed or not, uses the request up; the only requests sent without the
\* user are those of the chart and the price display when an overview that
\* was received is shown.
C18_NoAutomaticRetry == [][C18_Step]_vars

\* The history request of a period the user selected failed: the chart
\* shows its alert with Retry and no history request is in flight.
C18_Witness ==
    /\ ChartErrorShown
    /\ chart.lastStatus = 500
    /\ chart.selectedPeriod # "7d"
    /\ clicks = 1
    /\ ChartPending(chartCalls) = 0

\* The call that was started last.
Latest(c) == c = MaxCalls \/ calls[c + 1].pc = "idle"

\* C19 as stated: once the overview of the ticker asked for last has been
\* answered 404, the text "No data available" is shown.
C19_404ShowsNoData ==
    \A c \in Calls :
        (Latest(c) /\ calls[c].pc = "failed" /\ calls[c].ov = 404) => NoDataAvailableShown

C19_Step ==
    \A c \in Calls :
        (calls[c].pc = "fetching" /\ calls'[c].pc = "failed" /\ calls'[c].ov = 404) =>
            /\ page'.error \in {ErrorMessage(shape, 404) : shape \in ErrorShapes}
            /\ ~page'.loading
            /\ page'.data = page.data
            /\ NoDataAvailableShown' => NoDataAvailableShown

C19_NoDataOnlyFrom2xx ==
    /\ \A c \in Calls :
        (Latest(c) /\ calls[c].pc = "failed" /\ calls[c].ov = 404) => ErrorAlertShown
    /\ NoDataAvailableShown =>
            /\ ~page.data.results
            /\ \E c \in Calls : calls[c].pc \in {"snapBody", "finBody", "done", "failed"}
                                    /\ calls[c].ov = 200

\* C19: when the overview is answered 404, the page shows its error alert
\* with the text made from the 404 and the overview data is left as it was,
\* so the 404 does not bring up "No data available"; the alert stays while
\* the call is the last one started; "No data available" is rendered only
\* for an overview that some call received with 2xx and without results.
C19_404ShowsErrorAlert == [][C19_Step]_vars /\ []C19_NoDataOnlyFrom2xx

\* The overview was answered 404 with no detail: the alert reads
\* "Error: 404" and no overview is rendered.
C19_Witness ==
    /\ \E c \in Calls : Latest(c) /\ calls[c].pc = "failed" /\ calls[c].ov = 404
    /\ page.error = ErrorMessage("absent", 404)
    /\ ~Displayed(page)

\* The history requests a step sends.
ChartIssued == {k \in ChartCalls : chartCalls[k].pc = "idle" /\ chartCalls'[k].pc = "fetching"}

\* The step changes the ticker or the period of the chart, its mounting
\* included.
ChartSelectionChanges ==
    /\ chart'.mounted
    /\ \/ ~chart.mounted
       \/ chart'.ticker # chart.ticker
       \/ chart'.selectedPeriod # chart.selectedPeriod

C21_Step ==
    /\ (~chart.mounted /\ chart'.mounted) => chart'.selectedPeriod = "7d"
    /\ ChartSelectionChanges =>
            /\ Cardinality(ChartIssued) = 1
            /\ \A k \in ChartIssued :
                    /\ chartCalls'[k].ticker = chart'.ticker
                    /\ chartCalls'[k].ticker = page'.currentTicker
                    /\ chartCalls'[k].period = chart'.selectedPeriod
    /\ (~ChartSelectionChanges /\ clicks' = clicks) => ChartIssued = {}

C21_PeriodIsKnown ==
    /\ chart.selectedPeriod \in Periods
    /\ \A k \in ChartCalls : chartCalls[k].period \in Periods

C23_ChartDataIsOfSelection ==
    (chart.mounted /\ ChartPending(chartCalls) = 0 /\ chart.chartData # "") =>
        chart.chartData = chart.selectedPeriod

\* The snapshot or the financials request of the call q failed: a non-2xx
\* answer, or its fetch or the reading of its body rejected.
SideFailed(q) == NotOk(q.snap) \/ NotOk(q.fin) \/ q.rejected \in {"snapshot", "financials"}
OverviewFailed(q) == NotOk(q.ov) \/ q.rejected = "overview"

\* C26 as stated: a call whose snapshot or financials request failed, and
\* whose overview did not, returns without its catch block, so it has shown
\* its overview and has not set the error of the page.
C26_OriginalStep ==
    \A c \in Calls :
        (Returns(c) /\ SideFailed(calls'[c]) /\ ~OverviewFailed(calls'[c])) =>
            /\ calls'[c].pc = "done"
            /\ calls'[c].ov = 200
            /\ page'.error = page.error

C26_SideFailureIsSilent == [][C26_OriginalStep]_vars

C26_AmendedStep ==
    \A c \in Calls :
        /\ \* the overview is ok: it is displayed whatever the statuses of
           \* the snapshot and the financials are
           (calls[c].pc = "fetching" /\ calls'[c].ov = 200) =>
                /\ page'.data = OverviewData(calls[c].ticker, page'.data.results)
                /\ ~page'.loading
                /\ page'.error = page.error
                /\ calls'[c].pc # "failed"
        /\ \* no request rejected: non-2xx snapshot and financials are passed over
           (Returns(c) /\ calls'[c].rejected = "" /\ ~NotOk(calls'[c].ov)) =>
                /\ calls'[c].pc = "done"
                /\ calls'[c].ov = 200
                /\ page'.error = page.error
                /\ page'.data = page.data \/ calls[c].pc = "fetching"
        /\ \* the fetch of the snapshot or the financials rejected: Promise.all
           \* rejects and no overview is set
           (Returns(c) /\ calls[c].pc = "fetching"
                /\ calls'[c].rejected \in {"snapshot", "financials"}) =>
                /\ calls'[c].pc = "failed"
                /\ calls'[c].ov = 0
                /\ page'.error = Rejection
                /\ page'.data = page.data
        /\ \* the reading of the body of the snapshot or the financials
           \* rejected: the error is set next to the overview
           (Returns(c) /\ calls[c].pc # "fetching"
                /\ calls'[c].rejected \in {"snapshot", "financials"}) =>
                /\ calls'[c].pc = "failed"
                /\ calls'[c].ov = 200
                /\ page'.error = Rejection
                /\ page'.data = page.data

\* C26: a snapshot or financials answer that is not 2xx never sets the error
\* of the page and never keeps an overview that is ok from being displayed;
\* a snapshot or financials request that rejects does set the error: when
\* its fetch rejects, no overview is set by the call, and when the reading
\* of its body rejects, the overview set before stays.
C26_SideNon2xxIsSilent == [][C26_AmendedStep]_vars

\* A call returned with its overview displayed and no error, although the
\* snapshot and the financials were both answered 503.
C26_Witness ==
    /\ \E c \in Calls : calls[c].pc = "done" /\ calls[c].snap = 503 /\ calls[c].fin = 503
    /\ Displayed(page)
    /\ ~ErrorAlertShown
    /\ ~page.snapshotData.present
    /\ ~page.financialsData.present
    /\ ~page.snapshotLoading
    /\ ~page.financialsLoading

\* No call of fetchTickerData is in flight.
AllCallsEnded == \A c \in Calls : calls[c].pc \in {"idle", "done", "failed"}

C27_OriginalStep ==
    \A c \in Calls :
        Returns(c) =>
            /\ ~page'.loading
            /\ ~page'.snapshotLoading
            /\ ~page'.financialsLoading

\* C27 as stated: when a call of fetchTickerData ends, loading,
\* snapshotLoading and financialsLoading are all false.
C27_EveryCallEndsIdle == [][C27_OriginalStep]_vars

\* C27: once every call of fetchTickerData that was started has ended,
\* loading, snapshotLoading and financialsLoading are all false, whatever
\* the outcomes of the requests were.
C27_FlagsClearWhenAllEnded ==
    AllCallsEnded =>
        /\ ~page.loading
        /\ ~page.snapshotLoading
        /\ ~page.financialsLoading

\* Two calls have ended, one in its catch block because a request rejected
\* and one normally with a snapshot that was not ok.
C27_Witness ==
    /\ AllCallsEnded
    /\ \E c \in Calls : calls[c].pc = "failed" /\ calls[c].rejected # ""
    /\ \E c \in Calls : calls[c].pc = "done" /\ calls[c].snap = 503 /\ calls[c].fin = 200
    /\ ~page.loading

\* C28: whenever the page holds overview data and financials data, both are
\* of the ticker submitted last.
C28_OverviewAndFinancialsAgree ==
    (page.data.present /\ page.financialsData.present) =>
        /\ page.data.ticker = page.financialsData.ticker
        /\ page.data.ticker = page.currentTicker

TesterStart == SfIdle /\ CacheInit /\ UiInit /\ TesterInit

TesterSpec == TesterStart /\ [][TesterNext]_vars

\* C22: the POST that Run Sample Query makes to /api/salesforce/query
\* carries the statement SELECT Id, Name, Type FROM Account LIMIT 10.
C22_SampleQueryIsAccounts ==
    (testerCall.pc = "fetching" /\ testerCall.via = "sample") =>
        testerCall.soql = "SELECT Id, Name, Type FROM Account LIMIT 10"

\* C29: while an error is held no records are held, so the error box and
\* the table are never shown together.
C29_ErrorMeansNoRecords ==
    TesterErrorShown =>
        /\ tester.records = <<>>
        /\ ~TesterTableShown

====
